---- MODULE Spec2Model ----
(***************************************************************************)
(* A model of the nvda_remote client: the fingerprint cache                *)
(* (src/src/fingerprint.rs) and the connection object NVDARemote           *)
(* (src/src/lib.rs): new, join, send, update, parse, set_event_callback.   *)
(*                                                                         *)
(* Text is modelled at the granularity of JSON lexemes: a unit of the wire *)
(* (or of the cache file) is one lexeme -- a brace, a colon, a comma, a    *)
(* string literal, a number literal, a bare word that is no JSON lexeme -- *)
(* or the newline byte.  A transport read may end after any unit.          *)
(*                                                                         *)
(* An integer literal is kept as its two's-complement decomposition        *)
(*      value = w * 2^32 + n,   -2^31 <= n < 2^31,                         *)
(* so that the 64-bit value serde_json holds and the cast `as i32` (which  *)
(* keeps n and drops w) are both exact without leaving 32-bit arithmetic.  *)
(***************************************************************************)
EXTENDS Integers, Sequences, FiniteSets, TLC

VARIABLES
    fingerprints,   \* FingerprintCache.fingerprints: host -> stored string
    file,           \* the cache file on disk
    conn,           \* "none" before NVDARemote::new returned Ok, then "open"
    self,           \* the NVDARemote fields host, port, channel, connection_type
    uid,            \* NVDARemote.uid, the membership id
    event_callback, \* NVDARemote.event_callback is Some
    rx,             \* soc, inbound: units sent by the peer and not yet read
    rxend,          \* soc, inbound: "open", "eof" (clean close) or "err"
    tx,             \* soc, outbound: units written so far
    txok,           \* soc, outbound: a write succeeds
    crashed,        \* a panic has unwound the process
    ret,            \* what the last call returned to its caller
    attempt,        \* what the last connection attempt saw (history)
    delivered,      \* every unit the peer has sent (history)
    decoded,        \* the records parse() has decoded (history)
    readline,       \* how read_line ended in the last update(): "line", "eof", "err"
    events,         \* the events update() has returned (history)
    observed        \* the calls of the event callback (history)

vars == <<fingerprints, file, conn, self, uid, event_callback, rx, rxend, tx,
          txok, crashed, ret, attempt, delivered, decoded, readline, events,
          observed>>

cacheVars == <<fingerprints, file>>
sessionVars == <<conn, self, uid, event_callback, rx, rxend, tx, txok,
                 attempt, delivered, decoded, readline, events, observed>>

-----------------------------------------------------------------------------
(* Bounds of the model.                                                    *)

\* The peer sends at most this many records.
MaxRecords == 2
\* The peer sends at most this many records when it draws them from all of Records.
MaxProbes == 1
\* At most this many outbound messages are written.
MaxWrites == 3
\* The peer sends at most this many records in a session that also writes.
MaxSessionRecords == 2

-----------------------------------------------------------------------------
(* Lexemes.                                                                *)

LB == [k |-> "{"]
RB == [k |-> "}"]
COLON == [k |-> ":"]
COMMA == [k |-> ","]
NL == [k |-> "nl"]
NULL == [k |-> "null"]
Str(s) == [k |-> "str", s |-> s]
\* an integer literal that fits 64 signed bits, of value w * 2^32 + n
IntLit(w, n) == [k |-> "int", w |-> w, n |-> n]
\* any other number literal: a fraction, an exponent, or beyond 64 signed bits
RealLit(s) == [k |-> "real", s |-> s]
\* a bare word, which is no JSON lexeme
Word(s) == [k |-> "word", s |-> s]

-----------------------------------------------------------------------------
(* serde_json: from_str, Value indexing, as_str, as_i64.                   *)

JNull == [k |-> "null"]
JFail == [ok |-> FALSE, v |-> JNull, next |-> 0]
JDone(v, next) == [ok |-> TRUE, v |-> v, next |-> next]

RECURSIVE ParseValue(_, _)
RECURSIVE ParseMembers(_, _, _)

\* One JSON value starting at unit i of t.
ParseValue(t, i) ==
    IF i > Len(t) THEN JFail
    ELSE CASE t[i].k = "str"  -> JDone([k |-> "str", s |-> t[i].s], i + 1)
           [] t[i].k = "int"  -> JDone([k |-> "int", w |-> t[i].w, n |-> t[i].n], i + 1)
           [] t[i].k = "real" -> JDone([k |-> "real", s |-> t[i].s], i + 1)
           [] t[i].k = "null" -> JDone(JNull, i + 1)
           [] t[i].k = "{"    ->
                IF i + 1 <= Len(t) /\ t[i + 1].k = "}"
                THEN JDone([k |-> "obj", m |-> <<>>], i + 2)
                ELSE ParseMembers(t, i + 1, <<>>)
           [] OTHER -> JFail

\* The members of an object from unit i on, m being those read so far; a key
\* that repeats replaces the earlier value (Map::insert).
ParseMembers(t, i, m) ==
    IF i + 1 > Len(t) \/ t[i].k # "str" \/ t[i + 1].k # ":" THEN JFail
    ELSE LET key == t[i].s
             r == ParseValue(t, i + 2)
             m2 == [x \in (DOMAIN m) \cup {key} |-> IF x = key THEN r.v ELSE m[x]]
         IN  IF ~r.ok \/ r.next > Len(t) THEN JFail
             ELSE CASE t[r.next].k = "," -> ParseMembers(t, r.next + 1, m2)
                    [] t[r.next].k = "}" -> JDone([k |-> "obj", m |-> m2], r.next + 1)
                    [] OTHER -> JFail

IsSpace(u) == u.k = "nl"

\* serde_json::from_str: one value, white space around it, nothing after it.
from_str(t) ==
    LET s == SelectSeq(t, LAMBDA u : ~IsSpace(u))
        r == ParseValue(s, 1)
    IN  IF r.ok /\ r.next = Len(s) + 1
        THEN [ok |-> TRUE, v |-> r.v]
        ELSE [ok |-> FALSE, v |-> JNull]

\* j[key]: Null unless j is an object that has the key.
Index(j, key) ==
    IF j.k = "obj" /\ key \in DOMAIN j.m THEN j.m[key] ELSE JNull

None == [some |-> FALSE]
Some(v) == [some |-> TRUE, v |-> v]

as_str(j) == IF j.k = "str" THEN Some(j.s) ELSE None

\* Some for an integer that fits 64 signed bits, None for anything else.
as_i64(j) == IF j.k = "int" THEN Some([w |-> j.w, n |-> j.n]) ELSE None

\* `as i32` of a 64-bit integer keeps the low 32 bits.
AsI32(v) == v.n

-----------------------------------------------------------------------------
(* EventType.  Every event has the same fields, unused ones at a default.  *)

Ev(tag, text, raw, a, b, c, d) ==
    [tag |-> tag, text |-> text, raw |-> raw, a |-> a, b |-> b, c |-> c, d |-> d]
Motd(text) == Ev("Motd", text, <<>>, 0, 0, 0, 0)
ChannelJoined(id) == Ev("ChannelJoined", "", <<>>, id, 0, 0, 0)
ChannelLeft == Ev("ChannelLeft", "", <<>>, 0, 0, 0, 0)
Beep(hz, length, left, right) == Ev("Beep", "", <<>>, hz, length, left, right)
Invalid(data) == Ev("Invalid", "", data, 0, 0, 0, 0)

-----------------------------------------------------------------------------
(* NVDARemote::parse.  The result is the event, the uid afterwards, and    *)
(* whether an unwrap() panicked instead (event and uid are then as before).*)

Parsed(ev, u) == [panic |-> FALSE, event |-> ev, uid |-> u]
Panicked(u) == [panic |-> TRUE, event |-> ChannelLeft, uid |-> u]

\* a motd that resets the membership id
ParseMotdResetsUid(j, u) ==
    LET m == as_str(Index(j, "motd"))
    IN  IF m.some THEN Parsed(Motd(m.v), 0) ELSE Panicked(u)

ParseMotd(j, u) ==
    LET m == as_str(Index(j, "motd"))
    IN  IF m.some THEN Parsed(Motd(m.v), u) ELSE Panicked(u)

ParseChannelJoined(j, u) ==
    LET o == as_i64(Index(j, "origin"))
    IN  IF o.some THEN Parsed(ChannelJoined(AsI32(o.v)), AsI32(o.v)) ELSE Panicked(u)

\* channel_left that forgets to reset the membership id
ParseChannelLeftKeepsUid(j, u) == Parsed(ChannelLeft, u)

ParseChannelLeft(j, u) == Parsed(ChannelLeft, 0)

\* a tone whose left and right volumes change places
ParseToneSwapsSides(j, u) ==
    LET hz == as_i64(Index(j, "hz"))
        length == as_i64(Index(j, "length"))
        left == as_i64(Index(j, "left"))
        right == as_i64(Index(j, "right"))
    IN  IF hz.some /\ length.some /\ left.some /\ right.some
        THEN Parsed(Beep(AsI32(hz.v), AsI32(length.v), AsI32(right.v), AsI32(left.v)), u)
        ELSE Panicked(u)

ParseTone(j, u) ==
    LET hz == as_i64(Index(j, "hz"))
        length == as_i64(Index(j, "length"))
        left == as_i64(Index(j, "left"))
        right == as_i64(Index(j, "right"))
    IN  IF hz.some /\ length.some /\ left.some /\ right.some
        THEN Parsed(Beep(AsI32(hz.v), AsI32(length.v), AsI32(left.v), AsI32(right.v)), u)
        ELSE Panicked(u)

ParseOther(data, u) == Parsed(Invalid(data), u)

OnBadJson(data, u) == Panicked(u)

parse(data, u) ==
    LET r == from_str(data)
    IN  IF ~r.ok THEN OnBadJson(data, u)
        ELSE LET ty == as_str(Index(r.v, "type"))
             IN  CASE ty.some /\ ty.v = "motd" -> ParseMotd(r.v, u)
                   [] ty.some /\ ty.v = "channel_joined" -> ParseChannelJoined(r.v, u)
                   [] ty.some /\ ty.v = "channel_left" -> ParseChannelLeft(r.v, u)
                   [] ty.some /\ ty.v = "tone" -> ParseTone(r.v, u)
                   [] OTHER -> ParseOther(data, u)

-----------------------------------------------------------------------------
(* The records a peer may send, as unit sequences without the newline.     *)

Member(key, value) == <<Str(key), COLON, value>>
\* a member whose value is an object, given as its units
Nested(key, units) == <<Str(key), COLON>> \o units

RECURSIVE Members(_)
Members(ms) ==
    IF Len(ms) = 0 THEN <<>>
    ELSE IF Len(ms) = 1 THEN ms[1]
    ELSE ms[1] \o <<COMMA>> \o Members(Tail(ms))

Object(ms) == <<LB>> \o Members(ms) \o <<RB>>

Typed(ty, ms) == Object(<<Member("type", Str(ty))>> \o ms)

RecMotd == Typed("motd", <<Member("motd", Str("hi"))>>)
RecMotdNoField == Typed("motd", <<>>)
RecMotdNotString == Typed("motd", <<Member("motd", IntLit(0, 1))>>)
RecJoined42 == Typed("channel_joined", <<Member("origin", IntLit(0, 42))>>)
RecJoined7 == Typed("channel_joined", <<Member("origin", IntLit(0, 7))>>)
\* origin 4294967305 = 2^32 + 9
RecJoinedWide == Typed("channel_joined", <<Member("origin", IntLit(1, 9))>>)
RecJoinedNoField == Typed("channel_joined", <<>>)
RecJoinedNotInt == Typed("channel_joined", <<Member("origin", Str("42"))>>)
RecLeft == Typed("channel_left", <<>>)
RecTone == Typed("tone", <<Member("hz", IntLit(0, 500)), Member("length", IntLit(0, 100)),
                           Member("left", IntLit(0, 50)), Member("right", IntLit(0, 50))>>)
RecToneLeft == Typed("tone", <<Member("right", IntLit(0, 10)), Member("left", IntLit(0, 90)),
                               Member("length", IntLit(0, 30)), Member("hz", IntLit(0, 440))>>)
RecToneNoRight == Typed("tone", <<Member("hz", IntLit(0, 500)), Member("length", IntLit(0, 100)),
                                  Member("left", IntLit(0, 50))>>)
RecToneReal == Typed("tone", <<Member("hz", RealLit("500.5")), Member("length", IntLit(0, 100)),
                               Member("left", IntLit(0, 50)), Member("right", IntLit(0, 50))>>)
RecPing == Typed("ping", <<>>)
RecNoType == Object(<<Member("origin", IntLit(0, 42))>>)
RecTypeNotString == Object(<<Member("type", NULL)>>)
RecNumber == <<IntLit(0, 42)>>
RecNotJson == <<Word("not"), Word("json"), Word("at"), Word("all")>>

Records ==
    {RecMotd, RecMotdNoField, RecMotdNotString, RecJoined42, RecJoined7,
     RecJoinedWide, RecJoinedNoField, RecJoinedNotInt, RecLeft, RecTone,
     RecToneLeft, RecToneNoRight, RecToneReal, RecPing, RecNoType, RecTypeNotString,
     RecNumber, RecNotJson}

\* The records of a session that also writes.
SessionRecords == {RecMotd, RecJoined42, RecLeft, RecTone, RecPing}

\* The records of longer exchanges.
CoreRecords ==
    {RecMotd, RecJoined42, RecJoinedWide, RecLeft, RecPing, RecNotJson}

-----------------------------------------------------------------------------
(* Inputs of a connection attempt.                                         *)

HostA == "relay.example"
HostB == "other.example"
Hosts == {HostA, HostB}
Keys == {"secret"}
DefaultPort == 6837
ConnectionTypes == {"Master", "Slave"}
\* the encoded certificate a server presents, as bytes
CertA == <<171, 205>>
CertB == <<18, 52>>
Certs == {CertA, CertB}

\* ConnectionType::to_string
to_string(ct) == IF ct = "Master" THEN "master" ELSE "slave"

\* NoCertificateVerification::verify_server_cert
verify_server_cert(end_entity, server_name) == "Ok"

\* verify_tls12_signature, verify_tls13_signature
verify_signature(cert) == "Ok"

\* What a call returned: Ok/Err/Some/None with its value, or "panic".
RetOf(op, arg, res, val) == [op |-> op, arg |-> arg, res |-> res, val |-> val]
Ret(op, res, val) == RetOf(op, "", res, val)

NoAttempt == [host |-> "", cert |-> <<>>, tcp |-> FALSE, tls |-> FALSE]
NoSelf == [host |-> "", port |-> 0, channel |-> "", connection_type |-> ""]

\* a new() that pins the certificate it is shown (trust on first use)
NewPinsHost(host, key, connection_type, port, tcp, cert, tls) ==
    /\ conn = "none" /\ ~crashed
    /\ attempt' = [host |-> host, cert |-> cert, tcp |-> tcp, tls |-> tcp /\ tls]
    /\ IF ~tcp
       THEN /\ ret' = Ret("new", "Err", "IoError")
            /\ UNCHANGED <<conn, self, uid, event_callback>>
       ELSE IF ~(tls /\ verify_server_cert(cert, host) = "Ok" /\ verify_signature(cert) = "Ok")
       THEN /\ ret' = Ret("new", "Err", "TlsError")
            /\ UNCHANGED <<conn, self, uid, event_callback>>
       ELSE /\ conn' = "open"
            /\ self' = [host |-> host, port |-> port, channel |-> key,
                        connection_type |-> to_string(connection_type)]
            /\ uid' = 0
            /\ event_callback' = FALSE
            /\ ret' = Ret("new", "Ok", "")
    /\ fingerprints' = IF tcp /\ tls
                       THEN [h \in (DOMAIN fingerprints) \cup {host} |->
                                IF h = host THEN cert ELSE fingerprints[h]]
                       ELSE fingerprints
    /\ UNCHANGED <<file, rx, rxend, tx, txok, crashed, delivered,
                   decoded, readline, events, observed>>

\* NVDARemote::new.  tcp: the TCP connection opens; cert: the certificate the
\* server presents; tls: the handshake meets no failure of its own (what the
\* TLS library and the peer make of a verifier whose
\* supported_verify_schemes() is empty is theirs to decide).  The hosts of
\* the model are names ServerName::try_from accepts.  The model holds one
\* connection: new is not called again once it has returned one.
New(host, key, connection_type, port, tcp, cert, tls) ==
    /\ conn = "none" /\ ~crashed
    /\ attempt' = [host |-> host, cert |-> cert, tcp |-> tcp, tls |-> tcp /\ tls]
    /\ IF ~tcp
       THEN /\ ret' = Ret("new", "Err", "IoError")
            /\ UNCHANGED <<conn, self, uid, event_callback>>
       ELSE IF ~(tls /\ verify_server_cert(cert, host) = "Ok" /\ verify_signature(cert) = "Ok")
       THEN /\ ret' = Ret("new", "Err", "TlsError")
            /\ UNCHANGED <<conn, self, uid, event_callback>>
       ELSE /\ conn' = "open"
            /\ self' = [host |-> host, port |-> port, channel |-> key,
                        connection_type |-> to_string(connection_type)]
            /\ uid' = 0
            /\ event_callback' = FALSE
            /\ ret' = Ret("new", "Ok", "")
    /\ UNCHANGED <<fingerprints, file, rx, rxend, tx, txok, crashed, delivered,
                   decoded, readline, events, observed>>

-----------------------------------------------------------------------------
(* NVDARemote::send and NVDARemote::join.  tx holds the messages that      *)
(* write_all put on the wire in full, one entry per message; what a failed *)
(* write_all left on the wire is no message and is not kept.               *)

\* {"type":"protocol_version","version":2}
ProtocolVersionMsg ==
    Object(<<Member("type", Str("protocol_version")), Member("version", IntLit(0, 2))>>)

\* json!({"type": "join", "channel": ..., "connection_type": ...}).to_string():
\* serde_json's Map keeps its keys sorted
JoinMsg(channel, connection_type) ==
    Object(<<Member("channel", Str(channel)),
             Member("connection_type", Str(connection_type)),
             Member("type", Str("join"))>>)

\* a message of the caller's own
KeyMsg == Object(<<Member("type", Str("key"))>>)

Wire(message) == message \o <<NL>>

\* the result of write_all(...).await.unwrap() when the write fails
OnWriteErr == "panic"

Send(message) ==
    /\ conn = "open" /\ ~crashed
    /\ Len(tx) < MaxWrites
    /\ IF txok
       THEN /\ tx' = Append(tx, Wire(message))
            /\ ret' = Ret("send", "Ok", "")
            /\ UNCHANGED crashed
       ELSE /\ UNCHANGED tx
            /\ ret' = Ret("send", OnWriteErr, "")
            /\ crashed' = (OnWriteErr = "panic")
    /\ UNCHANGED <<fingerprints, file, conn, self, uid, event_callback, rx, rxend,
                   txok, attempt, delivered, decoded, readline, events, observed>>

\* a join() that sends the join request first
JoinRequestFirst(ok2) ==
    /\ conn = "open" /\ ~crashed
    /\ Len(tx) + 2 <= MaxWrites
    /\ ok2 => txok
    /\ LET m1 == Wire(JoinMsg(self.channel, self.connection_type))
           m2 == Wire(ProtocolVersionMsg)
       IN  IF ~txok
           THEN /\ UNCHANGED tx
                /\ ret' = Ret("join", OnWriteErr, "")
                /\ crashed' = (OnWriteErr = "panic")
                /\ UNCHANGED txok
           ELSE IF ~ok2
           THEN /\ tx' = Append(tx, m1)
                /\ ret' = Ret("join", OnWriteErr, "")
                /\ crashed' = (OnWriteErr = "panic")
                /\ txok' = FALSE
           ELSE /\ tx' = Append(Append(tx, m1), m2)
                /\ ret' = Ret("join", "Ok", "")
                /\ UNCHANGED <<crashed, txok>>
    /\ UNCHANGED <<fingerprints, file, conn, self, uid, event_callback, rx, rxend,
                   attempt, delivered, decoded, readline, events, observed>>

\* join(): two sends; the link may break between them (ok2 = FALSE).
Join(ok2) ==
    /\ conn = "open" /\ ~crashed
    /\ Len(tx) + 2 <= MaxWrites
    /\ ok2 => txok
    /\ LET m1 == Wire(ProtocolVersionMsg)
           m2 == Wire(JoinMsg(self.channel, self.connection_type))
       IN  IF ~txok
           THEN /\ UNCHANGED tx
                /\ ret' = Ret("join", OnWriteErr, "")
                /\ crashed' = (OnWriteErr = "panic")
                /\ UNCHANGED txok
           ELSE IF ~ok2
           THEN /\ tx' = Append(tx, m1)
                /\ ret' = Ret("join", OnWriteErr, "")
                /\ crashed' = (OnWriteErr = "panic")
                /\ txok' = FALSE
           ELSE /\ tx' = Append(Append(tx, m1), m2)
                /\ ret' = Ret("join", "Ok", "")
                /\ UNCHANGED <<crashed, txok>>
    /\ UNCHANGED <<fingerprints, file, conn, self, uid, event_callback, rx, rxend,
                   attempt, delivered, decoded, readline, events, observed>>

\* NVDARemote::set_event_callback
SetEventCallback ==
    /\ conn = "open" /\ ~crashed
    /\ event_callback' = TRUE
    /\ ret' = Ret("set_event_callback", "Ok", "")
    /\ UNCHANGED <<fingerprints, file, conn, self, uid, rx, rxend, tx, txok, crashed,
                   attempt, delivered, decoded, readline, events, observed>>

-----------------------------------------------------------------------------
(* NVDARemote::update.                                                     *)

\* the place of the first newline in s, 0 when it has none
FirstNL(s) ==
    IF \E i \in 1..Len(s) : s[i] = NL
    THEN CHOOSE i \in 1..Len(s) : s[i] = NL /\ \A j \in 1..(i - 1) : s[j] # NL
    ELSE 0

\* a reader that puts what it has read back behind what it has not
LeftoverRequeued(s, q) ==
    IF q = Len(s) THEN <<>> ELSE SubSeq(s, q + 1, Len(s)) \o SubSeq(s, 1, q)

\* What stays in the socket when update() returns: its BufReader had read the
\* first q units, of which read_line took the line, and is dropped.
Leftover(s, q) == SubSeq(s, q + 1, Len(s))

Outcome(panic, r, u, called) == [panic |-> panic, ret |-> r, uid |-> u, called |-> called]

\* callback(event.clone()), made while self.uid is u
Call(event, u) == [event |-> event, uid |-> u]

\* an update() that calls the callback before parse() has set the uid
OnLineCallsEarly(buf, u, cb) ==
    LET r == parse(buf, u)
    IN  IF r.panic THEN Outcome(TRUE, None, u, <<>>)
        ELSE Outcome(FALSE, Some(r.event), r.uid,
                     IF cb THEN <<Call(r.event, u)>> ELSE <<>>)

\* read_line returned Ok(n), n > 0, with buf
OnLine(buf, u, cb) ==
    LET r == parse(buf, u)
    IN  IF r.panic THEN Outcome(TRUE, None, u, <<>>)
        ELSE Outcome(FALSE, Some(r.event), r.uid,
                     IF cb THEN <<Call(r.event, r.uid)>> ELSE <<>>)

\* an end of stream that resets the membership id
OnEofResetsUid(u, cb) == Outcome(FALSE, None, 0, <<>>)

\* read_line returned Ok(0)
OnEof(u, cb) == Outcome(FALSE, None, u, <<>>)

\* a read error that is told to the event callback
OnReadErrCallsBack(u, cb) ==
    Outcome(FALSE, None, u, IF cb THEN <<Call(Invalid(<<>>), u)>> ELSE <<>>)

\* read_line returned Err
OnReadErr(u, cb) == Outcome(FALSE, None, u, <<>>)

\* The effects of an update() that read `line` (ret.arg keeps it) and ended as o.
Finish(o, how, line) ==
    /\ readline' = how
    /\ crashed' = o.panic
    /\ uid' = o.uid
    /\ observed' = observed \o o.called
    /\ IF o.panic THEN /\ ret' = RetOf("update", line, "panic", "")
                       /\ UNCHANGED <<events, decoded>>
       ELSE IF o.ret.some THEN /\ ret' = RetOf("update", line, "Some", o.ret.v)
                               /\ events' = Append(events, o.ret.v)
                               /\ decoded' = Append(decoded, line)
       ELSE /\ ret' = RetOf("update", line, "None", "")
            /\ UNCHANGED <<events, decoded>>

\* update() returns once read_line has met a newline, the end of the stream or
\* a read error; until then it waits for the peer.
Update ==
    /\ conn = "open" /\ ~crashed
    /\ LET p == FirstNL(rx)
       IN  \/ /\ p > 0
              /\ \E q \in p..Len(rx) :
                    /\ rx' = Leftover(rx, q)
                    /\ Finish(OnLine(SubSeq(rx, 1, p), uid, event_callback), "line",
                              SubSeq(rx, 1, p))
           \/ /\ p = 0 /\ rxend = "eof" /\ rx # <<>>
              /\ rx' = <<>>
              /\ Finish(OnLine(rx, uid, event_callback), "line", rx)
           \/ /\ p = 0 /\ rxend = "eof" /\ rx = <<>>
              /\ rx' = <<>>
              /\ Finish(OnEof(uid, event_callback), "eof", <<>>)
           \/ /\ p = 0 /\ rxend = "err"
              /\ rx' = <<>>
              /\ Finish(OnReadErr(uid, event_callback), "err", <<>>)
    /\ UNCHANGED <<fingerprints, file, conn, self, event_callback, rxend, tx, txok,
                   attempt, delivered>>

-----------------------------------------------------------------------------
(* The peer and the network.                                               *)

\* The peer writes a record and its newline, max records at most in all.
ServerSend(rec, max) ==
    /\ conn = "open" /\ ~crashed /\ rxend = "open"
    /\ Len(delivered) < max
    /\ rx' = rx \o rec \o <<NL>>
    /\ delivered' = Append(delivered, rec \o <<NL>>)
    /\ UNCHANGED <<fingerprints, file, conn, self, uid, event_callback, rxend, tx,
                   txok, crashed, ret, attempt, decoded, readline, events, observed>>

\* A peer that writes its next record once the client has read the last.
ServerReply(rec, max) ==
    /\ rx = <<>>
    /\ ServerSend(rec, max)

\* The peer writes a last record without a newline and closes the stream.
ServerSendLast(rec, max) ==
    /\ conn = "open" /\ ~crashed /\ rxend = "open"
    /\ Len(delivered) < max
    /\ rx' = rx \o rec
    /\ delivered' = Append(delivered, rec)
    /\ rxend' = "eof"
    /\ UNCHANGED <<fingerprints, file, conn, self, uid, event_callback, tx,
                   txok, crashed, ret, attempt, decoded, readline, events, observed>>

\* The peer closes the stream cleanly.
ServerClose ==
    /\ conn = "open" /\ ~crashed /\ rxend = "open"
    /\ rxend' = "eof"
    /\ UNCHANGED <<fingerprints, file, conn, self, uid, event_callback, rx, tx, txok,
                   crashed, ret, attempt, delivered, decoded, readline, events,
                   observed>>

\* The connection breaks: reads and writes fail from now on.
ConnReset ==
    /\ conn = "open" /\ ~crashed /\ rxend = "open"
    /\ rxend' = "err"
    /\ txok' = FALSE
    /\ UNCHANGED <<fingerprints, file, conn, self, uid, event_callback, rx, tx,
                   crashed, ret, attempt, delivered, decoded, readline, events,
                   observed>>

-----------------------------------------------------------------------------
(* hex::encode and hex::decode.  A hex string is a sequence of characters, *)
(* a byte a number in 0..255.                                              *)

HexLower == <<"0", "1", "2", "3", "4", "5", "6", "7", "8", "9",
              "a", "b", "c", "d", "e", "f">>
HexUpper == <<"0", "1", "2", "3", "4", "5", "6", "7", "8", "9",
              "A", "B", "C", "D", "E", "F">>

RECURSIVE hex_encode(_)
hex_encode(bytes) ==
    IF bytes = <<>> THEN <<>>
    ELSE <<HexLower[(Head(bytes) \div 16) + 1], HexLower[(Head(bytes) % 16) + 1]>>
         \o hex_encode(Tail(bytes))

IsHexChar(c) == \E i \in 1..16 : HexLower[i] = c \/ HexUpper[i] = c
HexVal(c) == (CHOOSE i \in 1..16 : HexLower[i] = c \/ HexUpper[i] = c) - 1

RECURSIVE HexPairs(_)
HexPairs(str) ==
    IF str = <<>> THEN <<>>
    ELSE <<HexVal(str[1]) * 16 + HexVal(str[2])>> \o HexPairs(SubSeq(str, 3, Len(str)))

\* Err for an odd length or a character that is no hex digit
hex_decode(str) ==
    IF Len(str) % 2 = 1 \/ \E i \in 1..Len(str) : ~IsHexChar(str[i])
    THEN [ok |-> FALSE, v |-> <<>>]
    ELSE [ok |-> TRUE, v |-> HexPairs(str)]

-----------------------------------------------------------------------------
(* FingerprintCache.  The cache the caller holds is `fingerprints`; a host *)
(* name is kept as a string, a stored value as a sequence of characters.   *)

EmptyMap == [h \in {} |-> <<>>]

\* a byte sequence that is no certificate
NotACert == <<0>>
Fingerprints == Certs \cup {NotACert}

\* rustls::RootCertStore::add accepts the encoding of a certificate only
IsCertificate(bytes) == bytes \in Certs

\* FingerprintCache::contains
contains(fps, host) == host \in DOMAIN fps

\* an insert that keeps the value a host already has
InsertIfAbsent(fps, host, value) ==
    [h \in (DOMAIN fps) \cup {host} |-> IF h \in DOMAIN fps THEN fps[h] ELSE value]

\* HashMap::insert
Insert(fps, host, value) ==
    [h \in (DOMAIN fps) \cup {host} |-> IF h = host THEN value ELSE fps[h]]

\* FingerprintCache::add_fingerprint
add_fingerprint(fps, host, fingerprint) == Insert(fps, host, hex_encode(fingerprint))

\* hex::decode(..).unwrap() on a stored value that is no hex string
OnBadHex == "panic"

\* FingerprintCache::get_fingerprint
get_fingerprint(fps, host) ==
    IF ~contains(fps, host) THEN RetOf("get_fingerprint", host, "None", <<>>)
    ELSE LET d == hex_decode(fps[host])
         IN  IF d.ok THEN RetOf("get_fingerprint", host, "Some", d.v)
             ELSE RetOf("get_fingerprint", host, OnBadHex, <<>>)

\* FingerprintCache::to_cert_store: the store holds the decoded values
to_cert_store(fps) ==
    IF \E h \in DOMAIN fps : ~hex_decode(fps[h]).ok
    THEN RetOf("to_cert_store", "", OnBadHex, {})
    ELSE IF \E h \in DOMAIN fps : ~IsCertificate(hex_decode(fps[h]).v)
    THEN RetOf("to_cert_store", "", "panic", {})
    ELSE RetOf("to_cert_store", "", "Ok", {hex_decode(fps[h]).v : h \in DOMAIN fps})

-----------------------------------------------------------------------------
(* The cache file: absent, unreadable (read_to_string fails: no permission,*)
(* no UTF-8), or a text.                                                   *)

Absent == [kind |-> "absent", text |-> <<>>]
Unreadable == [kind |-> "unreadable", text |-> <<>>]
Text(t) == [kind |-> "text", text |-> t]

\* the orders in which a HashMap may iterate its keys
RECURSIVE Orders(_)
Orders(S) ==
    IF S = {} THEN {<<>>}
    ELSE UNION {{<<h>> \o o : o \in Orders(S \ {h})} : h \in S}

\* a serializer that writes the first entry only
SerializeFirstEntry(fps, order) ==
    Object(<<Nested("fingerprints",
                    Object([i \in 1..(IF order = <<>> THEN 0 ELSE 1) |->
                               Member(order[i], Str(fps[order[i]]))]))>>)

\* serde_json::to_string_pretty(&self), the keys in the order `order`
Serialize(fps, order) ==
    Object(<<Nested("fingerprints",
                    Object([i \in 1..Len(order) |->
                               Member(order[i], Str(fps[order[i]]))]))>>)

Deserialized(map) == [ok |-> TRUE, v |-> map]
NotDeserialized == [ok |-> FALSE, v |-> EmptyMap]

\* serde_json::from_str::<FingerprintCache>: an object with the field
\* `fingerprints`, itself an object of strings; other fields are ignored.
Deserialize(text) ==
    LET r == from_str(text)
    IN  IF ~r.ok \/ r.v.k # "obj" \/ "fingerprints" \notin DOMAIN r.v.m
        THEN NotDeserialized
        ELSE LET f == r.v.m["fingerprints"]
             IN  IF f.k # "obj" \/ \E h \in DOMAIN f.m : f.m[h].k # "str"
                 THEN NotDeserialized
                 ELSE Deserialized([h \in DOMAIN f.m |-> f.m[h].s])

\* load_from_file when read_to_string returned Ok(data) and from_str failed
OnDecodeErr(fps) == [res |-> "Err", val |-> "JsonError", fps |-> fps]

\* load_from_file when read_to_string returned Err
OnReadFileErr(fps) == [res |-> "Ok", val |-> "", fps |-> EmptyMap]

\* FingerprintCache::load_from_file: the result and the cache the caller
\* holds afterwards (the one it held when no cache is returned)
load_from_file(f, fps) ==
    IF f.kind # "text" THEN OnReadFileErr(fps)
    ELSE LET d == Deserialize(f.text)
         IN  IF d.ok THEN [res |-> "Ok", val |-> "", fps |-> d.v]
             ELSE OnDecodeErr(fps)

LoadFromFile ==
    /\ ~crashed
    /\ LET r == load_from_file(file, fingerprints)
       IN  /\ fingerprints' = r.fps
           /\ ret' = Ret("load_from_file", r.res, r.val)
    /\ UNCHANGED <<file, crashed>>
    /\ UNCHANGED sessionVars

\* FingerprintCache::save_to_file.  io: fs::write succeeds; a failed write
\* leaves the file as it was or truncated.
SaveToFile(order, io, truncated) ==
    /\ ~crashed
    /\ order \in Orders(DOMAIN fingerprints)
    /\ IF io THEN /\ file' = Text(Serialize(fingerprints, order))
                  /\ ret' = Ret("save_to_file", "Ok", "")
       ELSE /\ file' = IF truncated THEN Text(<<>>) ELSE file
            /\ ret' = Ret("save_to_file", "Err", "IoError")
    /\ UNCHANGED <<fingerprints, crashed>>
    /\ UNCHANGED sessionVars

Contains(host) ==
    /\ ~crashed
    /\ ret' = RetOf("contains", host, "Ok", contains(fingerprints, host))
    /\ UNCHANGED <<fingerprints, file, crashed>>
    /\ UNCHANGED sessionVars

AddFingerprint(host, fingerprint) ==
    /\ ~crashed
    /\ fingerprints' = add_fingerprint(fingerprints, host, fingerprint)
    /\ ret' = RetOf("add_fingerprint", host, "Ok", fingerprint)
    /\ UNCHANGED <<file, crashed>>
    /\ UNCHANGED sessionVars

GetFingerprint(host) ==
    /\ ~crashed
    /\ ret' = get_fingerprint(fingerprints, host)
    /\ crashed' = (ret'.res = "panic")
    /\ UNCHANGED <<fingerprints, file>>
    /\ UNCHANGED sessionVars

ToCertStore ==
    /\ ~crashed
    /\ ret' = to_cert_store(fingerprints)
    /\ crashed' = (ret'.res = "panic")
    /\ UNCHANGED <<fingerprints, file>>
    /\ UNCHANGED sessionVars

\* The texts a cache file may be given by hand.
FileGarbage == <<Word("garbage")>>
FileNoField == Object(<<Member(HostA, Str(hex_encode(CertA)))>>)
FileNotStrings == Object(<<Nested("fingerprints", Object(<<Member(HostA, IntLit(0, 1))>>))>>)
FileBadHex ==
    Object(<<Nested("fingerprints",
                    Object(<<Member(HostA, Str(<<"z", "z">>)),
                             Member(HostB, Str(<<"a", "b", "c">>))>>))>>)
FileUpperHex ==
    Object(<<Nested("fingerprints", Object(<<Member(HostA, Str(<<"A", "B", "C", "D">>))>>)),
             Member("version", IntLit(0, 1))>>)
FileTexts == {FileGarbage, FileNoField, FileNotStrings, FileBadHex, FileUpperHex}

\* The file is edited, removed or made unreadable outside the program.
EditFile(f) ==
    /\ ~crashed
    /\ file # f
    /\ file' = f
    /\ UNCHANGED <<fingerprints, crashed, ret>>
    /\ UNCHANGED sessionVars

-----------------------------------------------------------------------------

Init ==
    /\ fingerprints = EmptyMap
    /\ file = Absent
    /\ conn = "none"
    /\ self = NoSelf
    /\ uid = 0
    /\ event_callback = FALSE
    /\ rx = <<>>
    /\ rxend = "open"
    /\ tx = <<>>
    /\ txok = TRUE
    /\ crashed = FALSE
    /\ ret = Ret("", "", "")
    /\ attempt = NoAttempt
    /\ delivered = <<>>
    /\ decoded = <<>>
    /\ readline = ""
    /\ events = <<>>
    /\ observed = <<>>

Connect ==
    \E host \in Hosts, key \in Keys, ct \in ConnectionTypes, cert \in Certs,
       tcp \in BOOLEAN, tls \in BOOLEAN :
        New(host, key, ct, DefaultPort, tcp, cert, tls)

\* main(): NVDARemote::new("nvdaremote.ru", &key, ConnectionType::Slave, 6837)
MainConnect ==
    \E key \in Keys, tcp \in BOOLEAN, tls \in BOOLEAN :
        New("nvdaremote.ru", key, "Slave", DefaultPort, tcp, CertA, tls)

\* The connection of main() and its reader.
Next ==
    \/ MainConnect
    \/ SetEventCallback
    \/ Update
    \/ \E rec \in CoreRecords : ServerSend(rec, MaxRecords)
    \/ \E rec \in CoreRecords : ServerSendLast(rec, MaxRecords)
    \/ ServerClose
    \/ ConnReset

Spec == Init /\ [][Next]_vars

\* The same connection, the peer drawing from every record.
NextRecords ==
    \/ MainConnect
    \/ SetEventCallback
    \/ Update
    \/ \E rec \in Records : ServerSend(rec, MaxProbes)
    \/ \E rec \in Records : ServerSendLast(rec, MaxProbes)
    \/ ServerClose
    \/ ConnReset

SpecRecords == Init /\ [][NextRecords]_vars

\* The fingerprint cache and its file.
NextCache ==
    \/ LoadFromFile
    \/ \E order \in Orders(DOMAIN fingerprints), io \in BOOLEAN, truncated \in BOOLEAN :
          SaveToFile(order, io, truncated)
    \/ \E host \in Hosts : Contains(host)
    \/ \E host \in Hosts, fingerprint \in Fingerprints : AddFingerprint(host, fingerprint)
    \/ \E host \in Hosts : GetFingerprint(host)
    \/ ToCertStore
    \/ \E f \in {Absent, Unreadable} \cup {Text(t) : t \in FileTexts} : EditFile(f)

SpecCache == Init /\ [][NextCache]_vars

\* Pinning hosts and connecting to them.
NextTrust ==
    \/ \E host \in Hosts, fingerprint \in Certs : AddFingerprint(host, fingerprint)
    \/ Connect

SpecTrust == Init /\ [][NextTrust]_vars

\* A connection and its outbound messages.
NextSend ==
    \/ Connect
    \/ \E ok2 \in BOOLEAN : Join(ok2)
    \/ Send(KeyMsg)
    \/ ConnReset

SpecSend == Init /\ [][NextSend]_vars

\* A connection that joins, sends and reads, its peer answering in step.
NextSession ==
    \/ MainConnect
    \/ SetEventCallback
    \/ \E ok2 \in BOOLEAN : Join(ok2)
    \/ Send(KeyMsg)
    \/ Update
    \/ \E rec \in SessionRecords : ServerReply(rec, MaxSessionRecords)
    \/ ServerClose
    \/ ConnReset

SpecSession == Init /\ [][NextSession]_vars

-----------------------------------------------------------------------------
(* Notions the properties below are stated with.                           *)

RECURSIVE Flatten(_)
Flatten(ss) == IF ss = <<>> THEN <<>> ELSE Head(ss) \o Flatten(Tail(ss))

\* The records of a byte stream: each up to and with its newline, and what
\* follows the last newline when the stream has ended.
RECURSIVE Lines(_, _)
Lines(s, ended) ==
    IF s = <<>> THEN <<>>
    ELSE IF FirstNL(s) = 0 THEN (IF ended THEN <<s>> ELSE <<>>)
    ELSE <<SubSeq(s, 1, FirstNL(s))>> \o Lines(SubSeq(s, FirstNL(s) + 1, Len(s)), ended)

\* The events of the records handed to parse() one by one, up to a panic.
RECURSIVE RefRun(_, _)
RefRun(lines, u) ==
    IF lines = <<>> THEN <<>>
    ELSE LET r == parse(Head(lines), u)
         IN  IF r.panic THEN <<>> ELSE <<r.event>> \o RefRun(Tail(lines), r.uid)

\* a record without its newline
Chomp(line) == SelectSeq(line, LAMBDA u : u # NL)

IsJson(line) == from_str(line).ok
\* the `type` of a record, "" when it has none that is a string
TypeOf(line) ==
    LET r == from_str(line)
    IN  IF r.ok /\ r.v.k = "obj" /\ "type" \in DOMAIN r.v.m /\ r.v.m["type"].k = "str"
        THEN r.v.m["type"].s ELSE ""
Field(line, key) == Index(from_str(line).v, key)

\* a motd, channel_joined or tone record without a field it needs
LacksField(line) ==
    \/ TypeOf(line) = "motd" /\ Field(line, "motd").k # "str"
    \/ TypeOf(line) = "channel_joined" /\ Field(line, "origin").k # "int"
    \/ /\ TypeOf(line) = "tone"
       /\ \E key \in {"hz", "length", "left", "right"} : Field(line, key).k # "int"

-----------------------------------------------------------------------------
(* C1.  A connection attempt to a host that has no entry in the            *)
(* fingerprint store fails with TrustRejected, and leaves no connection,   *)
(* even when the TLS handshake completes.                                  *)
C1_UnpinnedHostRejected ==
    (ret.op = "new" /\ attempt.tls /\ ~contains(fingerprints, attempt.host))
        => (ret.res = "Err" /\ ret.val = "TrustRejected" /\ conn = "none")

(* C2.  For a host pinned with fingerprint f, a connection attempt whose   *)
(* server presents exactly the bytes f succeeds, and one whose server      *)
(* presents any other bytes fails with TrustMismatch.                      *)
C2_PinnedHostCompared ==
    (/\ ret.op = "new" /\ attempt.tls
     /\ contains(fingerprints, attempt.host)
     /\ hex_decode(fingerprints[attempt.host]).ok)
        => IF hex_decode(fingerprints[attempt.host]).v = attempt.cert
           THEN ret.res = "Ok" /\ conn = "open"
           ELSE ret.res = "Err" /\ ret.val = "TrustMismatch" /\ conn = "none"

(* C3.  However the byte stream is split into transport reads, once every  *)
(* byte sent has been read the events update() has returned are those of   *)
(* the same bytes handed over one record at a time: no byte that follows a *)
(* newline within one read is lost.                                        *)
C3_ChunkingIndependent ==
    (conn = "open" /\ rx = <<>> /\ ~crashed /\ rxend # "err")
        => events = RefRun(Lines(Flatten(delivered), rxend = "eof"), 0)

(* C4.  A record that is no valid JSON makes update() return the Invalid   *)
(* event with the record's raw text; nothing panics, and the session goes  *)
(* on.                                                                     *)
C4_BadJsonIsInvalid ==
    (ret.op = "update" /\ readline = "line" /\ ~IsJson(ret.arg))
        => /\ ~crashed
           /\ ret.res = "Some"
           /\ ret.val.tag = "Invalid"
           /\ ret.val.raw \in {ret.arg, Chomp(ret.arg)}

(* C5.  A valid JSON record of type motd, channel_joined or tone that      *)
(* lacks a required field, or has it with the wrong JSON type, yields the  *)
(* Invalid event with the raw record, leaves the membership id as it was   *)
(* and does not end the session.                                           *)
C5_MissingFieldIsInvalid ==
    [][(Update /\ readline' = "line" /\ LacksField(ret'.arg))
          => /\ ~crashed'
             /\ ret'.res = "Some"
             /\ ret'.val.tag = "Invalid"
             /\ ret'.val.raw \in {ret'.arg, Chomp(ret'.arg)}
             /\ uid' = uid]_vars

(* C6.  The membership id is that of the most recent channel_joined record *)
(* decoded, unless a channel_left was decoded after it, and 0 otherwise;   *)
(* channel_joined yields ChannelJoined(origin), channel_left ChannelLeft.  *)
(* An origin is w * 2^32 + n; it lies in the 32-bit signed range iff       *)
(* w = 0, and n is its low 32 bits read as a signed integer.               *)
NotJoined == [joined |-> FALSE, origin |-> [w |-> 0, n |-> 0]]

RECURSIVE LastMembership(_)
LastMembership(lines) ==
    IF lines = <<>> THEN NotJoined
    ELSE LET l == lines[Len(lines)]
         IN  CASE TypeOf(l) = "channel_left" -> NotJoined
               [] TypeOf(l) = "channel_joined" ->
                    [joined |-> TRUE,
                     origin |-> [w |-> Field(l, "origin").w, n |-> Field(l, "origin").n]]
               [] OTHER -> LastMembership(SubSeq(lines, 1, Len(lines) - 1))

\* the 32-bit integer i is the integer o
Is(i, o) == o.w = 0 /\ o.n = i
\* the 32-bit integer i is the low 32 bits of the integer o
IsLow32(i, o) == o.n = i

\* As stated: the id and the event carry the origin itself.
C6_MembershipIsOrigin ==
    conn = "open" =>
        /\ Is(uid, LastMembership(decoded).origin)
        /\ \A i \in 1..Len(decoded) :
              /\ TypeOf(decoded[i]) = "channel_joined" =>
                    /\ events[i].tag = "ChannelJoined"
                    /\ Is(events[i].a, Field(decoded[i], "origin"))
              /\ TypeOf(decoded[i]) = "channel_left" => events[i] = ChannelLeft

\* As amended: the id and the event carry the origin's low 32 bits, which
\* are the origin itself when it lies in the 32-bit signed range.
C6_MembershipIsOriginLow32 ==
    conn = "open" =>
        /\ IsLow32(uid, LastMembership(decoded).origin)
        /\ LastMembership(decoded).origin.w = 0 => Is(uid, LastMembership(decoded).origin)
        /\ \A i \in 1..Len(decoded) :
              /\ TypeOf(decoded[i]) = "channel_joined" =>
                    /\ events[i].tag = "ChannelJoined"
                    /\ IsLow32(events[i].a, Field(decoded[i], "origin"))
              /\ TypeOf(decoded[i]) = "channel_left" => events[i] = ChannelLeft

C6_JoinedThenLeft ==
    /\ Len(decoded) = 2
    /\ TypeOf(decoded[1]) = "channel_joined"
    /\ TypeOf(decoded[2]) = "channel_left"
    /\ events[1] = ChannelJoined(42)
    /\ uid = 0

(* C7.  An update() whose read_line meets the clean end of the stream      *)
(* (zero bytes) returns None, does not call the event callback and leaves  *)
(* the membership id as it was; every update() after it does the same.     *)
C7_EofYieldsNone ==
    [][/\ (Update /\ readline' = "eof")
            => /\ ret'.res = "None"
               /\ observed' = observed
               /\ events' = events
               /\ uid' = uid
               /\ ~crashed'
       /\ (Update /\ readline = "eof")
            => readline' = "eof" /\ ret'.res = "None"]_vars

C7_EofAfterJoin ==
    /\ readline = "eof" /\ ret.op = "update" /\ ret.res = "None"
    /\ event_callback /\ uid = 9 /\ Len(observed) = 2

(* C8.  A write failure while sending a message (send, join) comes back to *)
(* the caller as a TransportError value; nothing panics.                   *)
C8_WriteFailureIsValue ==
    (ret.op \in {"send", "join"} /\ ret.res # "Ok")
        => (ret.res = "Err" /\ ret.val = "TransportError" /\ ~crashed)

(* C9.  load_from_file never returns an error: whether the file is absent, *)
(* unreadable or not decodable, it returns an empty store.                 *)
C9_LoadFailsOpen ==
    [][LoadFromFile
          => /\ ret'.res = "Ok"
             /\ (file.kind # "text" \/ ~Deserialize(file.text).ok)
                   => fingerprints' = EmptyMap]_vars

(* C10.  When the value stored for a host is no hex string,                *)
(* get_fingerprint(host) and to_cert_store return a CacheDecodeError       *)
(* value; nothing panics and no other value is returned in its place.      *)
C10_BadHexIsValue ==
    [][/\ \A h \in Hosts :
            (/\ GetFingerprint(h)
             /\ contains(fingerprints, h) /\ ~hex_decode(fingerprints[h]).ok)
                => (ret'.res = "Err" /\ ret'.val = "CacheDecodeError" /\ ~crashed')
       /\ (/\ ToCertStore
           /\ \E h \in DOMAIN fingerprints : ~hex_decode(fingerprints[h]).ok)
                => (ret'.res = "Err" /\ ret'.val = "CacheDecodeError" /\ ~crashed')]_vars

(* C11.  A save that succeeds replaces the file with a text from which     *)
(* load_from_file returns exactly the mapping saved, whatever the file     *)
(* held before and whatever cache the caller held; every text a save of    *)
(* the loaded cache may write is one a save of the saved cache may write   *)
(* (the same content up to the order of the keys).  A load of a file that  *)
(* a save of the current cache may have written leaves the cache as it is. *)
SavedTexts(fps) == {Serialize(fps, order) : order \in Orders(DOMAIN fps)}

C11_SaveLoadRoundTrip ==
    [][/\ (\E order \in Orders(DOMAIN fingerprints), truncated \in BOOLEAN :
              SaveToFile(order, TRUE, truncated))
            => /\ ret'.res = "Ok"
               /\ file'.kind = "text"
               /\ file'.text \in SavedTexts(fingerprints)
               /\ \A held \in {EmptyMap, fingerprints} :
                     LET r == load_from_file(file', held)
                     IN  /\ r.res = "Ok"
                         /\ r.fps = fingerprints
                         /\ SavedTexts(r.fps) = SavedTexts(fingerprints)
                         /\ file'.text \in SavedTexts(r.fps)
       /\ (LoadFromFile /\ file.kind = "text" /\ file.text \in SavedTexts(fingerprints))
            => /\ ret'.res = "Ok"
               /\ fingerprints' = fingerprints]_vars

C11_TwoHostsSavedAndLoaded ==
    /\ ret.op = "load_from_file" /\ ret.res = "Ok"
    /\ DOMAIN fingerprints = Hosts
    /\ fingerprints[HostA] # fingerprints[HostB]
    /\ file.kind = "text"
    /\ file.text \in SavedTexts(fingerprints)

(* C12.  add_fingerprint(h, f) leaves a cache in which contains(h) is true *)
(* and get_fingerprint(h) returns Some(f); adding (h, f) again changes     *)
(* nothing; whatever h held before, it holds the one value f afterwards;   *)
(* the entries of every other host are as they were.  The encoding loses   *)
(* nothing: decoding the encoding of a byte sequence gives it back.        *)
SampleBytes == {<<>>, <<0>>, <<255>>, <<15, 240>>, <<9, 10, 160>>, <<171, 205>>}

C12_AddIsUpsert ==
    [][/\ \A h \in Hosts, f \in Fingerprints :
            AddFingerprint(h, f)
                => /\ contains(fingerprints', h)
                   /\ get_fingerprint(fingerprints', h) = RetOf("get_fingerprint", h, "Some", f)
                   /\ add_fingerprint(fingerprints', h, f) = fingerprints'
                   /\ \A f1 \in Fingerprints :
                         add_fingerprint(add_fingerprint(fingerprints, h, f1), h, f)
                            = fingerprints'
                   /\ DOMAIN fingerprints' = (DOMAIN fingerprints) \cup {h}
                   /\ \A g \in (DOMAIN fingerprints) \ {h} :
                         fingerprints'[g] = fingerprints[g]
       /\ \A f \in SampleBytes :
            /\ hex_decode(hex_encode(f)).ok
            /\ hex_decode(hex_encode(f)).v = f]_vars

C12_HostRepinned ==
    /\ ret.op = "add_fingerprint" /\ ret.arg = HostA /\ ret.val = CertB
    /\ DOMAIN fingerprints = Hosts
    /\ get_fingerprint(fingerprints, HostA).val = CertB
    /\ get_fingerprint(fingerprints, HostB).val = CertA

(* C13.  While the event callback is set, an update() that returns         *)
(* Some(event) calls it once, with that same event and after the           *)
(* membership id has been set for the event; an update() that returns None *)
(* (or returns nothing) does not call it.                                  *)
C13_ObserverOncePerEvent ==
    [][Update
          => IF event_callback /\ ret'.res = "Some"
             THEN /\ Len(observed') = Len(observed) + 1
                  /\ SubSeq(observed', 1, Len(observed)) = observed
                  /\ observed'[Len(observed')].event = ret'.val
                  /\ observed'[Len(observed')].uid = uid'
             ELSE observed' = observed]_vars

C13_JoinObservedAfterUid ==
    /\ event_callback
    /\ ret.op = "update" /\ ret.res = "Some" /\ ret.val = ChannelJoined(42)
    /\ uid = 42
    /\ Len(events) = 2
    /\ observed = <<Call(ChannelJoined(42), 42)>>

(* C14.  A join() that returns has written exactly two records, each       *)
(* ended by one newline: first {"type":"protocol_version","version":2},    *)
(* then a join request with the channel key given to new() and the role    *)
(* string "master" or "slave" of its connection type.  No join(), returning*)
(* or not, writes a join request that no protocol-version record precedes. *)
\* msg is one record and its newline
IsRecord(msg) == msg # <<>> /\ FirstNL(msg) = Len(msg)

\* the members of the JSON object msg holds, none when it holds no object
MembersOf(msg) ==
    LET r == from_str(msg)
    IN  IF r.ok /\ r.v.k = "obj" THEN r.v.m ELSE [key \in {} |-> JNull]

IsProtocolVersion(msg) ==
    /\ IsRecord(msg)
    /\ DOMAIN MembersOf(msg) = {"type", "version"}
    /\ as_str(MembersOf(msg)["type"]) = Some("protocol_version")
    /\ as_i64(MembersOf(msg)["version"]) = Some([w |-> 0, n |-> 2])

IsJoinRequest(msg, key, role) ==
    /\ IsRecord(msg)
    /\ DOMAIN MembersOf(msg) = {"type", "channel", "connection_type"}
    /\ as_str(MembersOf(msg)["type"]) = Some("join")
    /\ as_str(MembersOf(msg)["channel"]) = Some(key)
    /\ as_str(MembersOf(msg)["connection_type"]) = Some(role)

RoleOf(ct) == CASE ct = "Master" -> "master" [] ct = "Slave" -> "slave"

C14_JoinWritesTwoRecords ==
    [][\A ok2 \in BOOLEAN :
          Join(ok2)
             => /\ Len(tx') >= Len(tx) /\ SubSeq(tx', 1, Len(tx)) = tx
                /\ ret'.res = "Ok"
                      => /\ Len(tx') = Len(tx) + 2
                         /\ IsProtocolVersion(tx'[Len(tx) + 1])
                         /\ \E ct \in ConnectionTypes :
                               /\ to_string(ct) = self.connection_type
                               /\ IsJoinRequest(tx'[Len(tx) + 2], self.channel, RoleOf(ct))
                /\ \A i \in (Len(tx) + 1)..Len(tx') :
                      TypeOf(tx'[i]) = "join"
                         => i > Len(tx) + 1 /\ IsProtocolVersion(tx'[i - 1])]_vars

C14_SlaveJoined ==
    /\ ret.op = "join" /\ ret.res = "Ok"
    /\ Len(tx) = 2
    /\ IsProtocolVersion(tx[1])
    /\ IsJoinRequest(tx[2], "secret", "slave")

(* C15.  The records whose events update() has returned are records of the *)
(* stream the peer sent, taken in the order in which their ends arrived;   *)
(* the events returned are the events of those records in that same order, *)
(* and the events passed to the callback are among them in that order too. *)
RECURSIVE IsSubseq(_, _)
IsSubseq(a, b) ==
    IF a = <<>> THEN TRUE
    ELSE IF b = <<>> THEN FALSE
    ELSE IF Head(a) = Head(b) THEN IsSubseq(Tail(a), Tail(b))
    ELSE IsSubseq(a, Tail(b))

\* the records the peer has sent, in the order their ends arrived
Arrived == Lines(Flatten(delivered), TRUE)

ObservedEvents == [i \in 1..Len(observed) |-> observed[i].event]

C15_ArrivalOrder ==
    /\ IsSubseq(decoded, Arrived)
    /\ Len(events) = Len(decoded)
    /\ \A i \in 1..Len(events) :
          /\ ~parse(decoded[i], 0).panic
          /\ events[i] = parse(decoded[i], 0).event
    /\ IsSubseq(ObservedEvents, events)

C15_TwoInOrder ==
    /\ Arrived = <<RecMotd \o <<NL>>, RecJoinedWide \o <<NL>>>>
    /\ decoded = Arrived
    /\ events = <<Motd("hi"), ChannelJoined(9)>>
    /\ ObservedEvents = events

(* C16.  NVDARemote::new, whether it returns a connection or an error,     *)
(* leaves the fingerprint cache and its file as they were: it adds,        *)
(* changes and removes no entry.                                           *)
C16_NewLeavesCache ==
    [][Connect
          => /\ ret'.op = "new"
             /\ fingerprints' = fingerprints
             /\ file' = file]_vars

C16_ConnectedUnpinned ==
    /\ ret.op = "new" /\ ret.res = "Ok"
    /\ attempt.host = HostA /\ attempt.cert = CertB
    /\ DOMAIN fingerprints = {HostB}
    /\ get_fingerprint(fingerprints, HostB).val = CertA

(* C17.  A tone record whose hz, length, left and right are integers in    *)
(* the 32-bit signed range makes update() return Beep(hz, length, left,    *)
(* right) with those four values, in whatever order the record names them; *)
(* a motd record whose motd is a string makes it return Motd of that       *)
(* string.                                                                 *)
InRange32(v) == v.k = "int" /\ v.w = 0

C17_ToneAndMotdDecoded ==
    [][(Update /\ readline' = "line")
          => /\ (/\ TypeOf(ret'.arg) = "tone"
                 /\ \A key \in {"hz", "length", "left", "right"} :
                       InRange32(Field(ret'.arg, key)))
                   => /\ ret'.res = "Some"
                      /\ ret'.val = Beep(Field(ret'.arg, "hz").n, Field(ret'.arg, "length").n,
                                         Field(ret'.arg, "left").n, Field(ret'.arg, "right").n)
             /\ (TypeOf(ret'.arg) = "motd" /\ Field(ret'.arg, "motd").k = "str")
                   => /\ ret'.res = "Some"
                      /\ ret'.val = Motd(Field(ret'.arg, "motd").s)]_vars

C17_BeepLeft ==
    /\ ret.op = "update" /\ ret.res = "Some"
    /\ Chomp(ret.arg) = RecToneLeft
    /\ ret.val = Beep(440, 30, 90, 10)

(* C18.  A record that is valid JSON and whose `type` is absent, no string *)
(* or a string other than motd, channel_joined, channel_left and tone      *)
(* makes update() return Invalid carrying the text of the record without   *)
(* the newline that ended it.                                              *)
KnownTypes == {"motd", "channel_joined", "channel_left", "tone"}

C18_InvalidCarriesRecordText ==
    (/\ ret.op = "update" /\ readline = "line"
     /\ IsJson(ret.arg) /\ TypeOf(ret.arg) \notin KnownTypes)
        => /\ ret.res = "Some"
           /\ ret.val = Invalid(Chomp(ret.arg))

(* C19.  The membership id changes only in an update() that decodes a      *)
(* channel_joined or channel_left record: join(), send(),                  *)
(* set_event_callback(), an update() that returns None, and an update()    *)
(* that decodes a motd, tone or other record leave it as it was.           *)
C19_UidChangedByMembershipOnly ==
    [][/\ uid' # uid
            => /\ Update
               /\ ret'.res = "Some"
               /\ TypeOf(ret'.arg) \in {"channel_joined", "channel_left"}
       /\ ((\E ok2 \in BOOLEAN : Join(ok2)) \/ Send(KeyMsg) \/ SetEventCallback)
            => uid' = uid
       /\ (Update /\ ret'.res = "None") => uid' = uid
       /\ (Update /\ ret'.res = "Some" /\ ret'.val.tag \in {"Motd", "Beep", "Invalid"})
            => uid' = uid]_vars

C19_JoinedThenMotdAndJoin ==
    /\ uid = 42
    /\ event_callback
    /\ decoded = <<RecJoined42 \o <<NL>>, RecMotd \o <<NL>>>>
    /\ ret.op = "join" /\ ret.res = "Ok"
    /\ Len(tx) = 3

(* C20.  An update() whose read_line fails reads once and returns None,    *)
(* the very value an update() at the clean end of the stream returns; it   *)
(* does not call the event callback, does not change the membership id,    *)
(* returns no event and panics not; the update() after it meets the same   *)
(* failure.                                                                *)
C20_ReadErrorIsNone ==
    [][/\ (Update /\ readline' = "err")
            => /\ ret'.res = "None"
               /\ ret' = RetOf("update", <<>>, "None", "")
               /\ OnReadErr(uid, event_callback) = OnEof(uid, event_callback)
               /\ observed' = observed
               /\ events' = events
               /\ uid' = uid
               /\ ~crashed'
       /\ (Update /\ readline' = "eof")
            => ret' = RetOf("update", <<>>, "None", "")
       /\ (Update /\ readline = "err")
            => readline' = "err" /\ ret'.res = "None"]_vars

C20_ReadErrorAfterJoin ==
    /\ readline = "err" /\ rxend = "err"
    /\ ret = RetOf("update", <<>>, "None", "")
    /\ event_callback
    /\ uid = 42
    /\ ObservedEvents = <<ChannelJoined(42)>>

====
